---- MODULE Spec2Model ----
(***************************************************************************)
(* Order-lifecycle core of the madde backend (src/main.py): the            *)
(* process_orders and process_tracking tables, the create/update order     *)
(* handlers with their derived fields (unit_quote_price, margin_rate) and  *)
(* their status side effects (tracking row, delivered_at stamp).           *)
(***************************************************************************)
EXTENDS Integers, Sequences, FiniteSets, Bags, TLC

\* ------------------------------------------------------------------------
\* Bounds of the model
\* ------------------------------------------------------------------------
MaxOrders == 1
MaxTick == 1
MaxManualTrackings == 1
MaxCalls == 2

\* ------------------------------------------------------------------------
\* Values
\* ------------------------------------------------------------------------
\* Python None, for the nullable columns (margin_rate, delivered_at).
None == <<>>

\* The four status strings of the source, in the order of the comment at
\* ProcessOrder.status: 견적중 / 제작중 / 납품완료 / 미진행.
Quoting == "Quoting"
InProduction == "InProduction"
Delivered == "Delivered"
NotProceeding == "NotProceeding"
Statuses == {Quoting, InProduction, Delivered, NotProceeding}

Abs(x) == IF x < 0 THEN -x ELSE x

RECURSIVE GCD(_, _)
GCD(a, b) == IF b = 0 THEN a ELSE GCD(b, a % b)

\* A Python float that is the quotient n / d (d # 0), kept exact as the
\* fraction <<num, den>> in lowest terms with den > 0.
Ratio(n, d) ==
    LET g == GCD(Abs(n), Abs(d))
        s == IF d < 0 THEN -1 ELSE 1
    IN  << (s * n) \div g, (s * d) \div g >>

\* Variant: floor division (a // b) in place of int(a / b).
IntFloor(a, b) == a \div b

\* int(a / b) of Python for b # 0: true division, then truncation toward zero.
IntTrunc(a, b) ==
    LET q == Abs(a) \div Abs(b)
    IN  IF (a < 0) # (b < 0) THEN -q ELSE q

\* ------------------------------------------------------------------------
\* The clock: datetime.now() and its "%Y-%m-%d" rendering
\* ------------------------------------------------------------------------
\* The instant the clock shows after t ticks: each tick moves five months
\* on, so that later instants fall in other months, quarters and years.
DateOf(t) ==
    [year |-> 2024 + (t \div 3), month |-> 1 + 5 * (t % 3), day |-> 9 + (t % 20)]

Digit(n) == <<"0", "1", "2", "3", "4", "5", "6", "7", "8", "9">>[n + 1]

\* d.strftime("%Y-%m-%d"): ten characters, zero padded.
Strftime(d) ==
    << Digit((d.year \div 1000) % 10), Digit((d.year \div 100) % 10),
       Digit((d.year \div 10) % 10), Digit(d.year % 10), "-",
       Digit((d.month \div 10) % 10), Digit(d.month % 10), "-",
       Digit((d.day \div 10) % 10), Digit(d.day % 10) >>

\* ------------------------------------------------------------------------
\* Derived fields
\* ------------------------------------------------------------------------
\* create_process_order: "if quantity" lets the division run
CreateDividesByQuantity(quantity) == quantity # 0

\* create_process_order: "if total_quote_price > 0" lets the division run
CreateDividesByPrice(total_quote_price) == total_quote_price > 0

\* update_process_order: "if obj.quantity and obj.total_quote_price"
UpdateDividesByQuantity(quantity, total_quote_price) ==
    quantity # 0 /\ total_quote_price # 0

\* update_process_order: "if obj.total_quote_price"
UpdateDividesByPrice(total_quote_price) == total_quote_price # 0

\* create_process_order: unit_quote_price
CreateUnitQuotePrice(total_quote_price, quantity) ==
    IF CreateDividesByQuantity(quantity)
    THEN IntTrunc(total_quote_price, quantity)
    ELSE 0

\* create_process_order: margin_rate
CreateMarginRate(total_quote_price, manufacturing_cost) ==
    IF CreateDividesByPrice(total_quote_price)
    THEN Ratio((total_quote_price - manufacturing_cost) * 100, total_quote_price)
    ELSE None

\* update_process_order: obj.unit_quote_price
UpdateUnitQuotePrice(total_quote_price, quantity) ==
    IF UpdateDividesByQuantity(quantity, total_quote_price)
    THEN IntTrunc(total_quote_price, quantity)
    ELSE 0

\* update_process_order: obj.margin_rate
UpdateMarginRate(total_quote_price, unit_manufacturing_cost) ==
    IF UpdateDividesByPrice(total_quote_price)
    THEN Ratio((total_quote_price - unit_manufacturing_cost) * 100, total_quote_price)
    ELSE None

\* create_process_order raises ZeroDivisionError: a division runs on a zero.
CreateFaults(in) ==
    \/ CreateDividesByQuantity(in.quantity) /\ in.quantity = 0
    \/ CreateDividesByPrice(in.total_quote_price) /\ in.total_quote_price = 0

\* update_process_order raises ZeroDivisionError: a division runs on a zero.
UpdateFaults(payload) ==
    \/ /\ UpdateDividesByQuantity(payload.quantity, payload.total_quote_price)
       /\ payload.quantity = 0
    \/ /\ UpdateDividesByPrice(payload.total_quote_price)
       /\ payload.total_quote_price = 0

\* ------------------------------------------------------------------------
\* Status side effects
\* ------------------------------------------------------------------------
\* Variant: the new row is never given a date.
CreateDeliveredAtNever(status, now) == None

\* create_process_order: delivered_at of the new row
CreateDeliveredAt(status, now) ==
    IF status = Delivered THEN Strftime(now) ELSE None

\* Variant: the default row is added whatever the status.
CreateAddsTrackingAnyStatus(status) == TRUE

\* create_process_order: "if status == InProduction" adds the default row
CreateAddsTracking(status) == status = InProduction

\* Variant: the previous status is not looked at.
EntersInProductionFromAny(old_status, new_status) == new_status = InProduction

\* update_process_order: the guard of the tracking branch
EntersInProduction(old_status, new_status) ==
    old_status # InProduction /\ new_status = InProduction

\* Variant: the existence query is not consulted.
InsertsTrackingUnchecked(existing) == TRUE

\* update_process_order: "if not existing", on what the existence query saw
InsertsTracking(existing) == ~existing

\* Variant: every save as Delivered stamps the date again.
EntersDeliveredFromAny(old_status, new_status) == new_status = Delivered

\* update_process_order: the guard of the delivered_at stamp
EntersDelivered(old_status, new_status) ==
    old_status # Delivered /\ new_status = Delivered

\* ------------------------------------------------------------------------
\* Rows
\* ------------------------------------------------------------------------
\* The ProcessOrder row create_process_order persists.
CreateRow(quantity, manufacturing_cost, total_quote_price, status, now) ==
    [ quantity |-> quantity,
      unit_manufacturing_cost |-> manufacturing_cost,
      unit_quote_price |-> CreateUnitQuotePrice(total_quote_price, quantity),
      total_quote_price |-> total_quote_price,
      status |-> status,
      margin_rate |-> CreateMarginRate(total_quote_price, manufacturing_cost),
      delivered_at |-> CreateDeliveredAt(status, now) ]

\* Variant: delivered_at is kept only while the order is Delivered.
UpdateRowClearingDeliveredAt(obj, payload, now) ==
    [ quantity |-> payload.quantity,
      unit_manufacturing_cost |-> payload.unit_manufacturing_cost,
      unit_quote_price |->
          UpdateUnitQuotePrice(payload.total_quote_price, payload.quantity),
      total_quote_price |-> payload.total_quote_price,
      status |-> payload.status,
      margin_rate |->
          UpdateMarginRate(payload.total_quote_price, payload.unit_manufacturing_cost),
      delivered_at |->
          IF payload.status # Delivered
          THEN None
          ELSE IF EntersDelivered(obj.status, payload.status)
               THEN Strftime(now)
               ELSE obj.delivered_at ]

\* Variant: the derived fields are taken from the request body.
UpdateRowTrustingCaller(obj, payload, now) ==
    [ quantity |-> payload.quantity,
      unit_manufacturing_cost |-> payload.unit_manufacturing_cost,
      unit_quote_price |-> payload.unit_quote_price,
      total_quote_price |-> payload.total_quote_price,
      status |-> payload.status,
      margin_rate |-> payload.margin_rate,
      delivered_at |->
          IF EntersDelivered(obj.status, payload.status)
          THEN Strftime(now)
          ELSE obj.delivered_at ]

\* The attributes of obj after update_process_order has run up to db.commit():
\* obj is the row as loaded, payload the request body.
UpdateRow(obj, payload, now) ==
    [ quantity |-> payload.quantity,
      unit_manufacturing_cost |-> payload.unit_manufacturing_cost,
      unit_quote_price |->
          UpdateUnitQuotePrice(payload.total_quote_price, payload.quantity),
      total_quote_price |-> payload.total_quote_price,
      status |-> payload.status,
      margin_rate |->
          UpdateMarginRate(payload.total_quote_price, payload.unit_manufacturing_cost),
      delivered_at |->
          IF EntersDelivered(obj.status, payload.status)
          THEN Strftime(now)
          ELSE obj.delivered_at ]

\* The flush of db.commit(): the UPDATE sets the columns whose attribute
\* differs from the value loaded, and leaves the others as the table has them.
FlushRow(stored, loaded, obj) ==
    [ quantity |->
          IF obj.quantity # loaded.quantity THEN obj.quantity ELSE stored.quantity,
      unit_manufacturing_cost |->
          IF obj.unit_manufacturing_cost # loaded.unit_manufacturing_cost
          THEN obj.unit_manufacturing_cost ELSE stored.unit_manufacturing_cost,
      unit_quote_price |->
          IF obj.unit_quote_price # loaded.unit_quote_price
          THEN obj.unit_quote_price ELSE stored.unit_quote_price,
      total_quote_price |->
          IF obj.total_quote_price # loaded.total_quote_price
          THEN obj.total_quote_price ELSE stored.total_quote_price,
      status |-> IF obj.status # loaded.status THEN obj.status ELSE stored.status,
      margin_rate |->
          IF obj.margin_rate # loaded.margin_rate
          THEN obj.margin_rate ELSE stored.margin_rate,
      delivered_at |->
          IF obj.delivered_at # loaded.delivered_at
          THEN obj.delivered_at ELSE stored.delivered_at ]

\* ------------------------------------------------------------------------
\* Floating point: Python's float, for the values that are not negative
\* ------------------------------------------------------------------------
\* A float is [m, e]: a mantissa that is odd, or zero, and the power of two
\* it is multiplied by. The mantissa has up to Precision bits, more than a
\* number holds here, so it is kept as a run of limbs, the lowest first,
\* each of LimbBits bits. The result of an operation is the exact result
\* rounded to Precision bits, to the nearest and on a tie to the even one.
Precision == 53

LimbBits == 13

RECURSIVE TwoTo(_)
TwoTo(n) == IF n = 0 THEN 1 ELSE 2 * TwoTo(n - 1)

LimbBase == TwoTo(LimbBits)

FloatZero == [m |-> <<>>, e |-> 0]

\* The limbs of a number, and the number of a run of limbs short enough.
RECURSIVE BigOf(_)
BigOf(n) == IF n = 0 THEN <<>> ELSE <<n % LimbBase>> \o BigOf(n \div LimbBase)

RECURSIVE BigValue(_)
BigValue(a) == IF a = <<>> THEN 0 ELSE Head(a) + LimbBase * BigValue(Tail(a))

\* The run without its zero limbs at the high end.
RECURSIVE BigNorm(_)
BigNorm(a) ==
    IF a # <<>> /\ a[Len(a)] = 0 THEN BigNorm(SubSeq(a, 1, Len(a) - 1)) ELSE a

RECURSIVE BigAddCarry(_, _, _)
BigAddCarry(a, b, carry) ==
    IF a = <<>> /\ b = <<>>
    THEN BigOf(carry)
    ELSE LET t == (IF a = <<>> THEN 0 ELSE Head(a))
                  + (IF b = <<>> THEN 0 ELSE Head(b)) + carry
         IN  <<t % LimbBase>>
                 \o BigAddCarry(IF a = <<>> THEN a ELSE Tail(a),
                                IF b = <<>> THEN b ELSE Tail(b),
                                t \div LimbBase)

BigAdd(a, b) == BigNorm(BigAddCarry(a, b, 0))

\* The product by a number n of at most 17 bits.
RECURSIVE BigMulCarry(_, _, _)
BigMulCarry(a, n, carry) ==
    IF a = <<>>
    THEN BigOf(carry)
    ELSE LET t == n * Head(a) + carry
         IN  <<t % LimbBase>> \o BigMulCarry(Tail(a), n, t \div LimbBase)

BigMul(a, n) == BigNorm(BigMulCarry(a, n, 0))

\* The quotient and the remainder by a number d of at most 17 bits, from the
\* highest limb down.
RECURSIVE BigDivRem(_, _, _)
BigDivRem(a, d, r) ==
    IF a = <<>>
    THEN [q |-> <<>>, r |-> r]
    ELSE LET t == r * LimbBase + a[Len(a)]
             lower == BigDivRem(SubSeq(a, 1, Len(a) - 1), d, t % d)
         IN  [q |-> Append(lower.q, t \div d), r |-> lower.r]

BigDiv(a, d) ==
    LET res == BigDivRem(a, d, 0) IN [q |-> BigNorm(res.q), r |-> res.r]

\* Bit i of the number, bit 0 the lowest, and the count of its bits.
BigBit(a, i) ==
    IF i \div LimbBits >= Len(a)
    THEN 0
    ELSE (a[i \div LimbBits + 1] \div TwoTo(i % LimbBits)) % 2

BigLen(a) ==
    IF a = <<>>
    THEN 0
    ELSE LimbBits * (Len(a) - 1)
         + (CHOOSE n \in 1..LimbBits :
                /\ a[Len(a)] >= TwoTo(n - 1)
                /\ a[Len(a)] < TwoTo(n))

\* The number times 2^k, and the whole part of the number over 2^k.
BigShiftLeft(a, k) ==
    IF a = <<>>
    THEN a
    ELSE [i \in 1..(k \div LimbBits) |-> 0] \o BigMul(a, TwoTo(k % LimbBits))

BigShiftRight(a, k) ==
    IF k \div LimbBits >= Len(a)
    THEN <<>>
    ELSE BigDiv(SubSeq(a, k \div LimbBits + 1, Len(a)), TwoTo(k % LimbBits)).q

\* The same value with a mantissa that is odd.
Canon(x) ==
    LET ones == {i \in 0..(BigLen(x.m) - 1) : BigBit(x.m, i) = 1}
        low == CHOOSE i \in ones : \A j \in ones : i <= j
    IN  IF x.m = <<>>
        THEN FloatZero
        ELSE [m |-> BigShiftRight(x.m, low), e |-> x.e + low]

\* The float nearest to m * 2^e; sticky tells that the exact value has
\* further bits set below those of m.
RoundToNearest(m, e, sticky) ==
    LET cut == BigLen(m) - Precision
        keep == BigShiftRight(m, cut)
        more == sticky \/ \E i \in 0..(cut - 2) : BigBit(m, i) = 1
        up == BigBit(m, cut - 1) = 1 /\ (more \/ BigBit(keep, 0) = 1)
    IN  IF cut <= 0
        THEN Canon([m |-> m, e |-> e])
        ELSE Canon([m |-> IF up THEN BigAdd(keep, <<1>>) ELSE keep, e |-> e + cut])

\* float(n) of an integer n that is not negative.
FloatOf(n) == Canon([m |-> BigOf(n), e |-> 0])

\* x + y
FloatAdd(x, y) ==
    LET e == IF x.e < y.e THEN x.e ELSE y.e
        a == BigShiftLeft(x.m, x.e - e)
        b == BigShiftLeft(y.m, y.e - e)
    IN  IF x.m = <<>> THEN y
        ELSE IF y.m = <<>> THEN x
        ELSE RoundToNearest(BigAdd(a, b), e, FALSE)

\* x * y, for an x whose mantissa has at most 17 bits.
FloatMul(x, y) ==
    IF x.m = <<>> \/ y.m = <<>>
    THEN FloatZero
    ELSE RoundToNearest(BigMul(y.m, BigValue(x.m)), x.e + y.e, FALSE)

\* x / y, for a y that is not zero and whose mantissa has at most 17 bits:
\* the dividend is scaled up until the quotient has a bit more than the
\* rounding needs, and the remainder tells whether the division ended.
FloatDiv(x, y) ==
    LET d == BigValue(y.m)
        scale == Precision + 2 + BigLen(y.m)
        res == BigDiv(BigShiftLeft(x.m, scale), d)
    IN  IF x.m = <<>>
        THEN FloatZero
        ELSE RoundToNearest(res.q, x.e - y.e - scale, res.r # 0)

\* int(x): the whole part.
FloatInt(x) ==
    IF x.e >= 0
    THEN BigValue(x.m) * TwoTo(x.e)
    ELSE BigValue(BigShiftRight(x.m, -x.e))

\* ------------------------------------------------------------------------
\* The sales summary
\* ------------------------------------------------------------------------
IsDigit(ch) == \E n \in 0..9 : Digit(n) = ch

DigitValue(ch) == CHOOSE n \in 0..9 : Digit(n) = ch

\* The number a run of digits writes.
RECURSIVE Number(_)
Number(s) ==
    IF s = <<>>
    THEN 0
    ELSE 10 * Number(SubSeq(s, 1, Len(s) - 1)) + DigitValue(s[Len(s)])

AllDigits(s) == \A i \in DOMAIN s : IsDigit(s[i])

IsLeap(y) == (y % 4 = 0 /\ y % 100 # 0) \/ y % 400 = 0

DaysInMonth(y, m) ==
    IF m = 2 THEN (IF IsLeap(y) THEN 29 ELSE 28)
    ELSE IF m \in {4, 6, 9, 11} THEN 30 ELSE 31

\* parse_date: None for an absent or empty text and for a text that
\* strptime(s, "%Y-%m-%d") refuses. strptime wants a year of four digits, a
\* month and a day of one or two digits, hyphens between them, and a date
\* that the calendar has.
ParseDate(s) ==
    LET dashes == {i \in DOMAIN s : s[i] = "-"}
        i == CHOOSE a \in dashes : \A b \in dashes : a <= b
        j == CHOOSE a \in dashes : \A b \in dashes : a >= b
        y == SubSeq(s, 1, i - 1)
        m == SubSeq(s, i + 1, j - 1)
        d == SubSeq(s, j + 1, Len(s))
    IN  IF s = None \/ Cardinality(dashes) # 2
        THEN None
        ELSE IF /\ Len(y) = 4 /\ AllDigits(y) /\ Number(y) >= 1
                /\ Len(m) \in 1..2 /\ AllDigits(m) /\ Number(m) \in 1..12
                /\ Len(d) \in 1..2 /\ AllDigits(d)
                /\ Number(d) \in 1..DaysInMonth(Number(y), Number(m))
             THEN [year |-> Number(y), month |-> Number(m), day |-> Number(d)]
             ELSE None

\* (month - 1) // 3 + 1
Quarter(month) == (month - 1) \div 3 + 1

\* int(o.total_quote_price or 0): the column is an integer that is never
\* null, and `or` replaces the falsy 0 by 0.
Amount(o) == IF o.total_quote_price = 0 THEN 0 ELSE o.total_quote_price

\* Variant: only the delivered orders whose date parses are read.
DeliveredAndDatedOrders(rows) ==
    SelectSeq(rows, LAMBDA o : o.status = Delivered
                               /\ ParseDate(o.delivered_at) # None)

\* The query: the orders whose status is Delivered, in table order.
DeliveredOrders(rows) == SelectSeq(rows, LAMBDA o : o.status = Delivered)

\* The tests of the loop on a parsed date d: the quarter and the month are
\* looked at only inside the branch of the year.
InYear(d, now) == d.year = now.year

\* Variant: the quarter is compared whatever the year.
InQuarterOfAnyYear(d, now) == Quarter(d.month) = Quarter(now.month)

InQuarter(d, now) == InYear(d, now) /\ Quarter(d.month) = Quarter(now.month)

\* Variant: the month is compared whatever the year.
InMonthOfAnyYear(d, now) == d.month = now.month

InMonth(d, now) == InYear(d, now) /\ d.month = now.month

\* One turn of the loop over delivered_orders.
AddToTotals(acc, o, now) ==
    LET amount == Amount(o)
        d == ParseDate(o.delivered_at)
        bump(total, counts) == IF d # None /\ counts THEN total + amount ELSE total
    IN  [ total_all |-> acc.total_all + amount,
          total_year |-> bump(acc.total_year, InYear(d, now)),
          total_quarter |-> bump(acc.total_quarter, InQuarter(d, now)),
          total_month |-> bump(acc.total_month, InMonth(d, now)) ]

RECURSIVE SalesTotals(_, _, _)
SalesTotals(delivered, now, acc) ==
    IF delivered = <<>>
    THEN acc
    ELSE SalesTotals(Tail(delivered), now, AddToTotals(acc, Head(delivered), now))

\* The body get_sales_summary returns.
SalesSummary(rows, now) ==
    LET totals == SalesTotals(DeliveredOrders(rows), now,
                      [ total_all |-> 0, total_year |-> 0,
                        total_quarter |-> 0, total_month |-> 0 ])
    IN  [ year |-> now.year,
          quarter |-> Quarter(now.month),
          month |-> now.month,
          total_sales_all |-> totals.total_all,
          total_sales_year |-> totals.total_year,
          total_sales_quarter |-> totals.total_quarter,
          total_sales_month |-> totals.total_month ]

\* ------------------------------------------------------------------------
\* Inputs
\* ------------------------------------------------------------------------
\* What a caller chooses of an order: the raw quantities and the status.
OrderInputs(quantities, costs, prices, statuses) ==
    [ quantity : quantities, unit_manufacturing_cost : costs,
      total_quote_price : prices, status : statuses ]

\* Inputs of the lifecycle specifications: every status, one set of amounts.
LifeInputs == OrderInputs({2}, {1}, {3}, Statuses)

\* Inputs of the derived-field specification: zero, negative and positive
\* quantities and prices, a price the quantity does not divide, a cost below
\* and a cost above the price.
CalcInputs == OrderInputs({-1, 0, 2}, {1, 4}, {-3, 0, 3}, {Quoting, Delivered})

\* The fields of ProcessOrderSchema a caller sends although they are derived.
CallerEchoes ==
    { [unit_quote_price |-> 0, margin_rate |-> None, delivered_at |-> None],
      [unit_quote_price |-> 7, margin_rate |-> <<50, 1>>, delivered_at |-> None],
      [unit_quote_price |-> 7, margin_rate |-> <<50, 1>>,
       delivered_at |-> Strftime(DateOf(1))] }

\* Those of them the lifecycle specification sends: with and without a
\* delivered_at of the caller's.
LifeEchoes == {e \in CallerEchoes : e.margin_rate # None}

\* A request body of update_process_order (ProcessOrderSchema).
Payload(in, echo) ==
    [ quantity |-> in.quantity,
      unit_manufacturing_cost |-> in.unit_manufacturing_cost,
      unit_quote_price |-> echo.unit_quote_price,
      total_quote_price |-> in.total_quote_price,
      status |-> in.status,
      margin_rate |-> echo.margin_rate,
      delivered_at |-> echo.delivered_at ]

\* Two bodies that differ in the three echoed fields and in nothing else.
TwinPayloads ==
    { <<Payload(in, ee[1]), Payload(in, ee[2])>> :
          in \in CalcInputs,
          ee \in {ee \in CallerEchoes \X CallerEchoes :
                     ee[1].unit_quote_price < ee[2].unit_quote_price} }

\* ------------------------------------------------------------------------
\* State
\* ------------------------------------------------------------------------
VARIABLES
    orders,     \* table process_orders: the row of order id at index id
    trackings,  \* table process_tracking: the bag of its order_id values
    tick,       \* how far the clock has moved; datetime.now() is DateOf(tick)
    calls,      \* the requests in flight, by worker: position and locals
    last,       \* history: the call that completed at this instant, if any
    twinUpdate, \* history: the table had the last update carried its twin body
    twinCreate, \* history: the row a create with the last update's inputs makes
    owners,     \* tables personnel and equipment: per kind, the rows in order
    shares,     \* tables personnel_project_share and equipment_project_share
    projects,   \* table projects: the rows in order
    statuses,   \* table process_order_status: the rows in order
    response    \* history: what the last call of a report or share handler
                \* was given and returned, None after any other call

vars ==
    <<orders, trackings, tick, calls, last, twinUpdate, twinCreate,
      owners, shares, projects, statuses, response>>

\* The tables of the allocation report.
assetTables == <<owners, shares, projects>>

Now == DateOf(tick)

OrderIds == DOMAIN orders

\* Number of process_tracking rows with this order_id.
TrackingCount(order_id) == CopiesIn(order_id, trackings)

OneTracking(order_id) == SetToBag({order_id})

\* A request in flight: pc is its position in the handler, id its order,
\* loaded the row its session read (obj as loaded), in what the caller sent,
\* existing what its existence query on process_tracking found.
IdleCall ==
    [ pc |-> "idle", id |-> 0, loaded |-> <<>>, in |-> <<>>, existing |-> FALSE ]

\* last.op names the handler, last.id its order, last.status the status it was
\* given; old_status, pre_delivered_at and pre_count are the order's status,
\* delivered_at and number of tracking rows as the call found them, pre_total
\* the number of rows of process_tracking then.
NoCall ==
    [ op |-> "none", id |-> 0, old_status |-> "", status |-> "",
      pre_delivered_at |-> None, pre_count |-> 0, pre_total |-> 0 ]

\* The two kinds of owner: the handlers and tables of one mirror the other's.
Kinds == {"personnel", "equipment"}

\* No owner, share or project is stored and no report has been asked for.
NoAssets ==
    /\ owners = [k \in Kinds |-> <<>>]
    /\ shares = [k \in Kinds |-> <<>>]
    /\ projects = <<>>
    /\ response = None

Init ==
    /\ NoAssets
    /\ orders = <<>>
    /\ trackings = EmptyBag
    /\ tick = 0
    /\ calls = [c \in 1..MaxCalls |-> IdleCall]
    /\ last = NoCall
    /\ twinUpdate = <<>>
    /\ twinCreate = None
    /\ statuses = <<>>

\* ------------------------------------------------------------------------
\* Handlers, one request at a time
\* ------------------------------------------------------------------------
\* The table has room for another order, within the bounds of the model.
RoomForOrder == Len(orders) < MaxOrders

\* A caller may add a tracking row by hand, within the bounds of the model.
RoomForTracking == BagCardinality(trackings) <= MaxManualTrackings

\* POST /process/orders
CreateOrder(in) ==
    LET id == Len(orders) + 1
    IN  /\ RoomForOrder
        /\ IF CreateFaults(in)
           THEN /\ last' = [NoCall EXCEPT !.op = "create_fault", !.status = in.status]
                /\ UNCHANGED <<orders, trackings>>
           ELSE /\ orders' = Append(orders,
                        CreateRow(in.quantity, in.unit_manufacturing_cost,
                                  in.total_quote_price, in.status, Now))
                /\ trackings' = IF CreateAddsTracking(in.status)
                                THEN trackings (+) OneTracking(id)
                                ELSE trackings
                /\ last' = [ op |-> "create", id |-> id, old_status |-> "",
                             status |-> in.status, pre_delivered_at |-> None,
                             pre_count |-> TrackingCount(id),
                             pre_total |-> BagCardinality(trackings) ]
        /\ twinUpdate' = orders'
        /\ twinCreate' = None
        /\ UNCHANGED <<tick, calls>>
        /\ UNCHANGED statuses
        /\ response' = None
        /\ UNCHANGED assetTables

\* PUT /process/orders/{order_id}, the order exists. twin is a second body,
\* applied to the same table at the same instant, for the history twinUpdate.
UpdateOrder(order_id, payload, twin) ==
    /\ order_id \in OrderIds
    /\ LET obj == orders[order_id]
           existing == TrackingCount(order_id) > 0
       IN  IF UpdateFaults(payload)
           THEN /\ last' = [NoCall EXCEPT !.op = "update_fault", !.id = order_id,
                                          !.status = payload.status]
                /\ twinUpdate' = orders
                /\ twinCreate' = None
                /\ UNCHANGED <<orders, trackings>>
           ELSE /\ orders' = [orders EXCEPT ![order_id] =
                        FlushRow(obj, obj, UpdateRow(obj, payload, Now))]
                /\ trackings' =
                       IF /\ EntersInProduction(obj.status, payload.status)
                          /\ InsertsTracking(existing)
                       THEN trackings (+) OneTracking(order_id)
                       ELSE trackings
                /\ twinUpdate' = [orders EXCEPT ![order_id] =
                        FlushRow(obj, obj, UpdateRow(obj, twin, Now))]
                /\ twinCreate' =
                       IF CreateFaults(payload)
                       THEN None
                       ELSE CreateRow(payload.quantity,
                                      payload.unit_manufacturing_cost,
                                      payload.total_quote_price,
                                      payload.status, Now)
                /\ last' = [ op |-> "update", id |-> order_id,
                             old_status |-> obj.status,
                             status |-> payload.status,
                             pre_delivered_at |-> obj.delivered_at,
                             pre_count |-> TrackingCount(order_id),
                             pre_total |-> BagCardinality(trackings) ]
    /\ UNCHANGED <<tick, calls>>
    /\ UNCHANGED statuses
    /\ response' = None
    /\ UNCHANGED assetTables

\* Variant: the missing order is answered by a tracking row for its id.
UpdateNotFoundInserting(order_id) ==
    /\ order_id \notin OrderIds
    /\ last' = [NoCall EXCEPT !.op = "update_404", !.id = order_id]
    /\ trackings' = IF TrackingCount(order_id) = 0
                    THEN trackings (+) OneTracking(order_id)
                    ELSE trackings
    /\ twinUpdate' = orders
    /\ twinCreate' = None
    /\ UNCHANGED <<orders, tick, calls>>
    /\ UNCHANGED statuses
    /\ response' = None
    /\ UNCHANGED assetTables

\* PUT /process/orders/{order_id}, no such order: HTTP 404.
UpdateNotFound(order_id) ==
    /\ order_id \notin OrderIds
    /\ last' = [NoCall EXCEPT !.op = "update_404", !.id = order_id]
    /\ twinUpdate' = orders
    /\ twinCreate' = None
    /\ UNCHANGED <<orders, trackings, tick, calls>>
    /\ UNCHANGED statuses
    /\ response' = None
    /\ UNCHANGED assetTables

\* POST /process/trackings, by hand. The foreign key wants the order to exist.
CreateTracking(order_id) ==
    /\ RoomForTracking
    /\ order_id \in OrderIds
    /\ trackings' = trackings (+) OneTracking(order_id)
    /\ last' = [NoCall EXCEPT !.op = "create_tracking", !.id = order_id,
                              !.pre_count = TrackingCount(order_id),
                              !.pre_total = BagCardinality(trackings)]
    /\ twinUpdate' = orders
    /\ twinCreate' = None
    /\ UNCHANGED <<orders, tick, calls>>
    /\ UNCHANGED statuses
    /\ response' = None
    /\ UNCHANGED assetTables

\* DELETE /process/trackings/{tracking_id}, a row of this order.
DeleteTracking(order_id) ==
    /\ TrackingCount(order_id) > 0
    /\ trackings' = trackings (-) OneTracking(order_id)
    /\ last' = [NoCall EXCEPT !.op = "delete_tracking", !.id = order_id,
                              !.pre_count = TrackingCount(order_id),
                              !.pre_total = BagCardinality(trackings)]
    /\ twinUpdate' = orders
    /\ twinCreate' = None
    /\ UNCHANGED <<orders, tick, calls>>
    /\ UNCHANGED statuses
    /\ response' = None
    /\ UNCHANGED assetTables

\* Time passes.
Tick ==
    /\ tick < MaxTick
    /\ tick' = tick + 1
    /\ last' = NoCall
    /\ UNCHANGED <<orders, trackings, calls, twinUpdate, twinCreate>>
    /\ UNCHANGED statuses
    /\ response' = None
    /\ UNCHANGED assetTables

\* ------------------------------------------------------------------------
\* Spec: the order lifecycle, one request at a time
\* ------------------------------------------------------------------------
Next ==
    \/ \E in \in LifeInputs : CreateOrder(in)
    \/ \E id \in 1..MaxOrders, in \in LifeInputs, e \in LifeEchoes :
           UpdateOrder(id, Payload(in, e), Payload(in, e))
    \/ \E id \in 1..(MaxOrders + 1) : UpdateNotFound(id)
    \/ \E id \in 1..MaxOrders : CreateTracking(id)
    \/ \E id \in 1..MaxOrders : DeleteTracking(id)
    \/ Tick

Spec == Init /\ [][Next]_vars

\* ------------------------------------------------------------------------
\* SpecAuto: the order lifecycle with no tracking row added or deleted by hand
\* ------------------------------------------------------------------------
NextAuto ==
    \/ \E in \in LifeInputs : CreateOrder(in)
    \/ \E id \in 1..MaxOrders, in \in LifeInputs, e \in LifeEchoes :
           UpdateOrder(id, Payload(in, e), Payload(in, e))
    \/ \E id \in 1..(MaxOrders + 1) : UpdateNotFound(id)
    \/ Tick

SpecAuto == Init /\ [][NextAuto]_vars

\* ------------------------------------------------------------------------
\* SpecCalc: the derived fields, over the amounts of CalcInputs
\* ------------------------------------------------------------------------
NextCalc ==
    \/ \E in \in CalcInputs : CreateOrder(in)
    \/ \E id \in 1..MaxOrders, pq \in TwinPayloads : UpdateOrder(id, pq[1], pq[2])

SpecCalc == Init /\ [][NextCalc]_vars

\* ------------------------------------------------------------------------
\* SpecSales: the sales summary over a table of several orders
\* ------------------------------------------------------------------------
\* Orders the summary may meet, within the bounds of the model.
MaxSalesOrders == 2

\* Texts a delivered_at column may hold. The handlers write None or the date
\* of a call; rows stored by other means (the database is shared, the column
\* is free text) may hold any text, and parse_date provides for those.
StoredDates ==
    { None,
      Strftime(DateOf(0)),
      <<"2", "0", "2", "4", "-", "0", "3", "-", "0", "5">>,
      <<"2", "0", "2", "3", "-", "0", "6", "-", "1", "0">>,
      <<"2", "0", "2", "4", "-", "6", "-", "1", "0">>,
      <<"2", "0", "2", "4", "/", "0", "1", "/", "0", "9">>,
      <<"2", "0", "2", "4", "-", "0", "2", "-", "3", "0">> }

\* The rows of the table when the model begins: as create_process_order
\* computes them, with any of the texts above in delivered_at.
StoredOrders ==
    { [CreateRow(1, 0, price, status, DateOf(0)) EXCEPT !.delivered_at = text] :
          price \in {2, 3}, status \in {Delivered, Quoting}, text \in StoredDates }

\* GET /sales/summary
GetSalesSummary ==
    /\ UNCHANGED statuses
    /\ response' = [op |-> "sales_summary", body |-> SalesSummary(orders, Now)]
    /\ UNCHANGED <<orders, trackings, tick, calls, last, twinUpdate, twinCreate>>
    /\ UNCHANGED assetTables

InitSales ==
    /\ orders \in UNION {[1..n -> StoredOrders] : n \in 0..MaxSalesOrders}
    /\ trackings = EmptyBag
    /\ tick = 0
    /\ calls = [c \in 1..MaxCalls |-> IdleCall]
    /\ last = NoCall
    /\ twinUpdate = <<>>
    /\ twinCreate = None
    /\ owners = [k \in Kinds |-> <<>>]
    /\ shares = [k \in Kinds |-> <<>>]
    /\ projects = <<>>
    /\ response = None
    /\ statuses = <<>>

NextSales ==
    \/ GetSalesSummary
    \/ \E in \in LifeInputs : CreateOrder(in)
    \/ Tick

SpecSales == InitSales /\ [][NextSales]_vars

\* ------------------------------------------------------------------------
\* SpecSigned: the sales summary over prices of either sign
\* ------------------------------------------------------------------------
\* Dates of delivery: none, in the month of the first instant, in its quarter,
\* in the month of the next instant, and in that month a year before.
SignedDates ==
    { None,
      Strftime(DateOf(0)),
      <<"2", "0", "2", "4", "-", "0", "3", "-", "0", "5">>,
      Strftime(DateOf(1)),
      <<"2", "0", "2", "3", "-", "0", "6", "-", "1", "0">> }

\* The rows of the table when the model begins: delivered orders with a
\* price below, at and above 0, and an order with a price below 0 that is
\* not delivered.
SignedOrders ==
    { [CreateRow(1, 0, price, Delivered, DateOf(0)) EXCEPT !.delivered_at = text] :
          price \in {-3, 0, 2}, text \in SignedDates }
    \cup { CreateRow(1, 0, -3, Quoting, DateOf(0)) }

InitSigned ==
    /\ NoAssets
    /\ orders \in UNION {[1..n -> SignedOrders] : n \in 0..MaxSalesOrders}
    /\ trackings = EmptyBag
    /\ tick = 0
    /\ calls = [c \in 1..MaxCalls |-> IdleCall]
    /\ last = NoCall
    /\ twinUpdate = <<>>
    /\ twinCreate = None
    /\ statuses = <<>>

NextSigned ==
    \/ GetSalesSummary
    \/ Tick

SpecSigned == InitSigned /\ [][NextSigned]_vars

\* ------------------------------------------------------------------------
\* The allocation report
\* ------------------------------------------------------------------------
\* Values of the column status of projects.
InProgress == "InProgress"
Applied == "Applied"
Closed == "Closed"

\* A nullable integer column holds None or Some(n).
Some(n) == <<n>>

\* Variant: every project counts, whatever its status.
IsActiveWhateverStatus(status) == TRUE

\* active_status = {"진행중", "신청완료"}
IsActive(status) == status \in {InProgress, Applied}

\* list(dict.fromkeys(titles)): each title once, where it comes first.
RECURSIVE DictFromKeys(_, _)
DictFromKeys(titles, acc) ==
    IF titles = <<>>
    THEN acc
    ELSE DictFromKeys(Tail(titles),
             IF \E i \in DOMAIN acc : acc[i] = Head(titles)
             THEN acc
             ELSE Append(acc, Head(titles)))

\* get_active_project_titles, its query having succeeded: the rows come in
\* the order of the table, and a row with an empty title is passed over.
ActiveProjectTitles(rows) ==
    LET found == SelectSeq(rows, LAMBDA r : IsActive(r.status))
        kept == SelectSeq(found, LAMBDA r : r.title # "")
    IN  DictFromKeys([i \in DOMAIN kept |-> kept[i].title], <<>>)

\* person.salary or 0, eq.acquisition_cost or 0
BaseOrZero(owner) ==
    IF owner.base = None THEN 0
    ELSE IF owner.base[1] = 0 THEN 0 ELSE owner.base[1]

\* `s.project_title not in active_projects` is false: the share is kept.
CountsTitle(title, active) == \E i \in DOMAIN active : active[i] = title

\* person_share_map[owner_id]: by title, the percent of the owner's last
\* share row of that title, over the rows whose title is active.
ShareMap(rows, owner_id, active) ==
    LET kept == {i \in DOMAIN rows : /\ rows[i].owner_id = owner_id
                                     /\ CountsTitle(rows[i].project_title, active)}
        of(title) == {i \in kept : rows[i].project_title = title}
        latest(title) == CHOOSE i \in of(title) : \A j \in of(title) : j <= i
    IN  [title \in {rows[i].project_title : i \in kept} |->
            rows[latest(title)].percent]

\* Variant: the map of the owner is taken as it is, inactive titles and all.
ProjSharesOfAnyTitle(rows, owner_id, active) ==
    LET all == [i \in DOMAIN rows |-> rows[i].project_title]
        whole == ShareMap(rows, owner_id, all)
    IN  [title \in {active[i] : i \in DOMAIN active} \cup DOMAIN whole |->
            IF title \in DOMAIN whole THEN whole[title] ELSE 0]

\* proj_shares: 0.0 for every active title, then the entries of the owner's
\* map whose title is among them.
ProjShares(rows, owner_id, active) ==
    LET map == ShareMap(rows, owner_id, active)
    IN  [title \in {active[i] : i \in DOMAIN active} |->
            IF title \in DOMAIN map THEN map[title] ELSE 0]

\* sum(proj_shares.values()), in the order of the active titles.
RECURSIVE SumPercents(_, _, _)
SumPercents(proj_shares, active, acc) ==
    IF active = <<>>
    THEN acc
    ELSE SumPercents(proj_shares, Tail(active),
                     FloatAdd(acc, FloatOf(proj_shares[Head(active)])))

\* The row of one owner in the report; amount is total_amount before int().
OwnerRow(owner, rows, active) ==
    LET proj_shares == ProjShares(rows, owner.id, active)
        total_percent == SumPercents(proj_shares, active, FloatZero)
        total_amount ==
            FloatMul(FloatOf(BaseOrZero(owner)),
                     FloatDiv(total_percent, FloatOf(100)))
    IN  [ id |-> owner.id,
          base |-> owner.base,
          shares |-> proj_shares,
          total_percent |-> total_percent,
          amount |-> total_amount,
          total_amount |-> FloatInt(total_amount) ]

\* The loop over the owners of one kind: the rows and the two running totals.
RECURSIVE OwnerLoop(_, _, _, _)
OwnerLoop(todo, rows, active, acc) ==
    IF todo = <<>>
    THEN acc
    ELSE LET row == OwnerRow(Head(todo), rows, active)
         IN  OwnerLoop(Tail(todo), rows, active,
                 [ rows |-> Append(acc.rows, [f \in DOMAIN row \ {"amount"} |-> row[f]]),
                   base_total |-> FloatAdd(acc.base_total,
                                           FloatOf(BaseOrZero(Head(todo)))),
                   grand_total |-> FloatAdd(acc.grand_total, row.amount) ])

KindReport(k, active) ==
    OwnerLoop(owners[k], shares[k], active,
              [rows |-> <<>>, base_total |-> FloatZero, grand_total |-> FloatZero])

\* empty_result
EmptyResult ==
    [ projects |-> <<>>,
      personnel_rows |-> <<>>,
      personnel_salary_total |-> 0,
      personnel_grand_total |-> 0,
      equipment_rows |-> <<>>,
      equipment_acquisition_total |-> 0,
      equipment_grand_total |-> 0 ]

\* What can go wrong with the reads of get_assets: nothing, the four queries
\* of the handler, or the query of get_active_project_titles.
Failures == {"none", "tables", "projects"}

\* The body get_assets returns. A failure of the handler's own queries
\* returns empty_result; a failure inside get_active_project_titles is
\* caught there, which returns [] to the handler.
AssetsBody(fail) ==
    LET active == IF fail = "projects" THEN <<>> ELSE ActiveProjectTitles(projects)
        personnel == KindReport("personnel", active)
        equipment == KindReport("equipment", active)
    IN  IF fail = "tables"
        THEN EmptyResult
        ELSE [ projects |-> active,
               personnel_rows |-> personnel.rows,
               personnel_salary_total |-> FloatInt(personnel.base_total),
               personnel_grand_total |-> FloatInt(personnel.grand_total),
               equipment_rows |-> equipment.rows,
               equipment_acquisition_total |-> FloatInt(equipment.base_total),
               equipment_grand_total |-> FloatInt(equipment.grand_total) ]

\* GET /assets
GetAssets(fail) ==
    /\ UNCHANGED statuses
    /\ response' = [op |-> "assets", fail |-> fail, body |-> AssetsBody(fail)]
    /\ UNCHANGED <<orders, trackings, tick, calls, last, twinUpdate, twinCreate>>
    /\ UNCHANGED assetTables

\* ------------------------------------------------------------------------
\* Handlers of the projects, the owners and their shares
\* ------------------------------------------------------------------------
\* Rows the tables may hold, within the bounds of the model.
MaxProjects == 3

MaxOwners == 2

\* POST /projects: a body without a title is refused, HTTP 400.
AddProject(title, status) ==
    /\ Len(projects) < MaxProjects
    /\ title # ""
    /\ projects' = Append(projects, [title |-> title, status |-> status])
    /\ UNCHANGED statuses
    /\ response' = None
    /\ UNCHANGED <<owners, shares>>
    /\ UNCHANGED <<orders, trackings, tick, calls, last, twinUpdate, twinCreate>>

\* PUT /projects/{project_id}, the project exists: the title and the status
\* of the body replace the stored ones, an empty title too.
UpdateProject(project_id, title, status) ==
    /\ project_id \in DOMAIN projects
    /\ projects' = [projects EXCEPT ![project_id] =
                        [title |-> title, status |-> status]]
    /\ UNCHANGED statuses
    /\ response' = None
    /\ UNCHANGED <<owners, shares>>
    /\ UNCHANGED <<orders, trackings, tick, calls, last, twinUpdate, twinCreate>>

\* The id the table gives its next row.
NextOwnerId(rows) ==
    IF rows = <<>> THEN 1
    ELSE 1 + (CHOOSE n \in {rows[i].id : i \in DOMAIN rows} :
                  \A i \in DOMAIN rows : rows[i].id <= n)

OwnerCount == Len(owners["personnel"]) + Len(owners["equipment"])

\* The highest id a table gives within the bounds of the model; ids of
\* deleted rows are not given again while a row with a higher id is stored.
MaxOwnerId == 3

\* POST /personnel and POST /equipment, which differ by the table alone.
AddOwner(k, base) ==
    /\ OwnerCount < MaxOwners
    /\ NextOwnerId(owners[k]) <= MaxOwnerId
    /\ owners' = [owners EXCEPT ![k] =
                      Append(@, [id |-> NextOwnerId(@), base |-> Some(base)])]
    /\ UNCHANGED statuses
    /\ response' = None
    /\ UNCHANGED <<shares, projects>>
    /\ UNCHANGED <<orders, trackings, tick, calls, last, twinUpdate, twinCreate>>

AddPersonnel(salary) == AddOwner("personnel", salary)

AddEquipment(acquisition_cost) == AddOwner("equipment", acquisition_cost)

\* Variant: the rows of the owner are left in the table.
RemainingSharesOfAll(rows, owner_id) == rows

\* The share table after the delete of the owner's rows.
RemainingShares(rows, owner_id) ==
    SelectSeq(rows, LAMBDA r : r.owner_id # owner_id)

\* Variant: every entry of the payload becomes a row.
KeptEntriesWhateverPercent(payload) == payload

\* The entries of the payload that become rows: those whose percent is
\* greater than 0, in the order of the payload.
KeptEntries(payload) == SelectSeq(payload, LAMBDA entry : ~(entry.percent <= 0))

\* DELETE /personnel/{person_id} and DELETE /equipment/{equipment_id}, the
\* owner exists: its share rows go with it.
DeleteOwner(k, owner_id) ==
    /\ \E i \in DOMAIN owners[k] : owners[k][i].id = owner_id
    /\ shares' = [shares EXCEPT ![k] = RemainingShares(@, owner_id)]
    /\ owners' = [owners EXCEPT ![k] = SelectSeq(@, LAMBDA r : r.id # owner_id)]
    /\ UNCHANGED statuses
    /\ response' = None
    /\ UNCHANGED projects
    /\ UNCHANGED <<orders, trackings, tick, calls, last, twinUpdate, twinCreate>>

DeletePersonnel(person_id) == DeleteOwner("personnel", person_id)

DeleteEquipment(equipment_id) == DeleteOwner("equipment", equipment_id)

\* Variant: the delete takes the share rows of every owner of the table.
UpdateSharesClearingTable(k, owner_id, payload) ==
    LET kept == KeptEntries(payload)
        added == [i \in DOMAIN kept |->
                     [ owner_id |-> owner_id,
                       project_title |-> kept[i].title,
                       percent |-> kept[i].percent ]]
    IN  /\ \E i \in DOMAIN owners[k] : owners[k][i].id = owner_id
        /\ shares' = [shares EXCEPT ![k] = added]
        /\ UNCHANGED statuses
        /\ response' = [ op |-> "update_shares", kind |-> k, id |-> owner_id,
                         payload |-> payload,
                         again |-> /\ response # None
                                   /\ response.op = "update_shares"
                                   /\ response.kind = k
                                   /\ response.id = owner_id
                                   /\ response.payload = payload ]
        /\ UNCHANGED <<owners, projects>>
        /\ UNCHANGED <<orders, trackings, tick, calls, last, twinUpdate, twinCreate>>

\* PUT /personnel/{person_id}/shares and PUT /equipment/{equipment_id}/shares,
\* the owner exists. The payload is the dict as a run of entries, each title
\* once. The history notes the call and whether it repeats the call before.
UpdateShares(k, owner_id, payload) ==
    LET kept == KeptEntries(payload)
        added == [i \in DOMAIN kept |->
                     [ owner_id |-> owner_id,
                       project_title |-> kept[i].title,
                       percent |-> kept[i].percent ]]
    IN  /\ \E i \in DOMAIN owners[k] : owners[k][i].id = owner_id
        /\ shares' = [shares EXCEPT ![k] = RemainingShares(@, owner_id) \o added]
        /\ UNCHANGED statuses
        /\ response' = [ op |-> "update_shares", kind |-> k, id |-> owner_id,
                         payload |-> payload,
                         again |-> /\ response # None
                                   /\ response.op = "update_shares"
                                   /\ response.kind = k
                                   /\ response.id = owner_id
                                   /\ response.payload = payload ]
        /\ UNCHANGED <<owners, projects>>
        /\ UNCHANGED <<orders, trackings, tick, calls, last, twinUpdate, twinCreate>>

UpdatePersonnelShares(person_id, payload) ==
    UpdateShares("personnel", person_id, payload)

UpdateEquipmentShares(equipment_id, payload) ==
    UpdateShares("equipment", equipment_id, payload)

\* ------------------------------------------------------------------------
\* SpecTitles: the projects and the list of the active titles
\* ------------------------------------------------------------------------
ProjectStatuses == {InProgress, Applied, Closed}

NextTitles ==
    \/ \E title \in {"A", "B"}, status \in ProjectStatuses :
           AddProject(title, status)
    \/ \E id \in 1..MaxProjects, title \in {"A", "B", ""},
           status \in ProjectStatuses : UpdateProject(id, title, status)
    \/ \E fail \in Failures : GetAssets(fail)

SpecTitles == Init /\ [][NextTitles]_vars

\* ------------------------------------------------------------------------
\* SpecAssets: the allocation report over owners, shares and two projects
\* ------------------------------------------------------------------------
Entry(title, percent) == [title |-> title, percent |-> percent]

\* Share payloads a caller of SpecAssets sends.
AssetPayloads ==
    { <<Entry("A", 29), Entry("B", 29)>>,
      <<Entry("A", 81), Entry("B", 70)>> }

\* The tables the requests meet: project A in progress and project B closed,
\* and perhaps a person stored without a salary, the column being nullable.
InitAssets ==
    /\ projects = << [title |-> "A", status |-> InProgress],
                     [title |-> "B", status |-> Closed] >>
    /\ owners \in { [k \in Kinds |-> <<>>],
                    [k \in Kinds |-> IF k = "personnel"
                                     THEN <<[id |-> 1, base |-> None]>>
                                     ELSE <<>>] }
    /\ shares = [k \in Kinds |-> <<>>]
    /\ response = None
    /\ orders = <<>>
    /\ trackings = EmptyBag
    /\ tick = 0
    /\ calls = [c \in 1..MaxCalls |-> IdleCall]
    /\ last = NoCall
    /\ twinUpdate = <<>>
    /\ twinCreate = None
    /\ statuses = <<>>

NextAssets ==
    \/ AddPersonnel(50)
    \/ AddEquipment(100)
    \/ \E id \in 1..MaxOwners, payload \in AssetPayloads :
           UpdatePersonnelShares(id, payload)
    \/ \E id \in 1..MaxOwners, payload \in AssetPayloads :
           UpdateEquipmentShares(id, payload)
    \/ \E id \in 1..2, status \in {InProgress, Closed} :
           UpdateProject(id, projects[id].title, status)
    \/ \E fail \in Failures : GetAssets(fail)

SpecAssets == InitAssets /\ [][NextAssets]_vars

\* ------------------------------------------------------------------------
\* SpecShares: the owners and the replacement of their shares
\* ------------------------------------------------------------------------
\* Share payloads a caller of SpecShares sends: empty, with percents that are
\* zero or negative, and the same entries in another order.
SharePayloads ==
    { <<>>,
      <<Entry("A", 29)>>,
      <<Entry("A", 0), Entry("B", 70)>>,
      <<Entry("B", 70), Entry("A", -5)>> }

NextShares ==
    \/ AddPersonnel(50)
    \/ AddEquipment(100)
    \/ \E id \in 1..MaxOwnerId, payload \in SharePayloads :
           UpdatePersonnelShares(id, payload)
    \/ \E id \in 1..MaxOwnerId, payload \in SharePayloads :
           UpdateEquipmentShares(id, payload)
    \/ \E id \in 1..MaxOwnerId : DeletePersonnel(id)
    \/ \E id \in 1..MaxOwnerId : DeleteEquipment(id)

SpecShares == Init /\ [][NextShares]_vars

\* ------------------------------------------------------------------------
\* SpecStatus: the progress row of an order
\* ------------------------------------------------------------------------
\* The order ids a caller of SpecStatus names in the path.
StatusOrders == {1, 2}

\* Bodies of POST /process/orders/{order_id}/status: the order_id of the body
\* need not be that of the path, and the fields left out are null.
StatusPayloads ==
    { [ order_id |-> body_id, total_process_time_hours |-> None,
        current_stage |-> stage, progress_percent |-> percent,
        current_detail |-> None, priority |-> None ] :
          body_id \in 1..2, stage \in {"cut", "weld"}, percent \in {10, 90} }

\* The index of the first row of the table for the order, 0 when none is.
ExistingStatus(order_id) ==
    IF \E i \in DOMAIN statuses : statuses[i].order_id = order_id
    THEN CHOOSE i \in DOMAIN statuses :
             /\ statuses[i].order_id = order_id
             /\ \A j \in DOMAIN statuses :
                    statuses[j].order_id = order_id => i <= j
    ELSE 0

\* The row with the five progress fields of the payload.
WithProgress(row, payload) ==
    [ row EXCEPT !.total_process_time_hours = payload.total_process_time_hours,
                 !.current_stage = payload.current_stage,
                 !.progress_percent = payload.progress_percent,
                 !.current_detail = payload.current_detail,
                 !.priority = payload.priority ]

\* Variant: the query finds no row.
FindsNoStatus(order_id) == 0

\* What the query for the order's row returns to the handler.
FindsStatus(order_id) == ExistingStatus(order_id)

\* POST /process/orders/{order_id}/status. The foreign key of the new row is
\* checked by some databases and not by others: enforced tells which.
CreateOrUpdateOrderStatus(order_id, payload, enforced) ==
    LET existing == FindsStatus(order_id)
    IN  /\ existing # 0 \/ order_id \in OrderIds \/ ~enforced
        /\ statuses' =
               IF existing # 0
               THEN [statuses EXCEPT ![existing] = WithProgress(@, payload)]
               ELSE Append(statuses,
                           WithProgress([ order_id |-> order_id,
                                          total_process_time_hours |-> None,
                                          current_stage |-> None,
                                          progress_percent |-> None,
                                          current_detail |-> None,
                                          priority |-> None ], payload))
        /\ response' = [ op |-> "order_status", id |-> order_id,
                         payload |-> payload, inserted |-> existing = 0 ]
        /\ UNCHANGED assetTables
        /\ UNCHANGED <<orders, trackings, tick, calls, last, twinUpdate, twinCreate>>

\* The same call when the order is not stored and the database checks the
\* foreign key: the commit fails and nothing is stored.
OrderStatusRefused(order_id, payload) ==
    /\ FindsStatus(order_id) = 0
    /\ order_id \notin OrderIds
    /\ response' = [ op |-> "order_status_500", id |-> order_id,
                     payload |-> payload, inserted |-> FALSE ]
    /\ UNCHANGED statuses
    /\ UNCHANGED assetTables
    /\ UNCHANGED <<orders, trackings, tick, calls, last, twinUpdate, twinCreate>>

NextStatus ==
    \/ \E id \in StatusOrders, payload \in StatusPayloads,
          enforced \in BOOLEAN :
           CreateOrUpdateOrderStatus(id, payload, enforced)
    \/ \E id \in StatusOrders, payload \in StatusPayloads :
           OrderStatusRefused(id, payload)
    \/ \E in \in LifeInputs : CreateOrder(in)

SpecStatus == Init /\ [][NextStatus]_vars

\* ------------------------------------------------------------------------
\* SpecConc: requests served by several workers, a step per database round
\* ------------------------------------------------------------------------
\* Variant: the insert is dropped when a row has appeared meanwhile.
InsertsAtCommitIfStillAbsent(sawExisting, existsNow) ==
    InsertsTracking(sawExisting) /\ ~existsNow

\* update_process_order, the decision to insert at db.commit(): it rests on
\* what the existence query saw, not on what the table holds by now.
InsertsAtCommit(sawExisting, existsNow) == InsertsTracking(sawExisting)

\* The request has not begun. A request that has returned stays on record.
Free(c) == calls[c].pc = "idle"

\* create_process_order up to its first db.commit(): the order row is stored.
ConcCreateInsert(c, in) ==
    /\ Free(c)
    /\ Len(orders) <= MaxOrders
    /\ ~CreateFaults(in)
    /\ orders' = Append(orders,
           CreateRow(in.quantity, in.unit_manufacturing_cost,
                     in.total_quote_price, in.status, Now))
    /\ calls' = [calls EXCEPT ![c] =
           [IdleCall EXCEPT !.pc = "created", !.id = Len(orders) + 1, !.in = in]]
    /\ UNCHANGED <<trackings, tick, last, twinUpdate, twinCreate>>
    /\ UNCHANGED statuses
    /\ response' = None
    /\ UNCHANGED assetTables

\* create_process_order from there to its return: the second db.commit().
ConcCreateTrack(c) ==
    /\ calls[c].pc = "created"
    /\ trackings' = IF CreateAddsTracking(calls[c].in.status)
                    THEN trackings (+) OneTracking(calls[c].id)
                    ELSE trackings
    /\ calls' = [calls EXCEPT ![c].pc = "done"]
    /\ last' = [ op |-> "create", id |-> calls[c].id, old_status |-> "",
                 status |-> calls[c].in.status, pre_delivered_at |-> None,
                 pre_count |-> TrackingCount(calls[c].id),
                 pre_total |-> BagCardinality(trackings) ]
    /\ UNCHANGED <<orders, tick, twinUpdate, twinCreate>>
    /\ UNCHANGED statuses
    /\ response' = None
    /\ UNCHANGED assetTables

\* update_process_order: the query that loads obj.
ConcUpdateLoad(c, order_id, in) ==
    /\ Free(c)
    /\ order_id \in OrderIds
    /\ ~UpdateFaults(in)
    /\ calls' = [calls EXCEPT ![c] =
           [IdleCall EXCEPT !.pc = "loaded", !.id = order_id,
                            !.loaded = orders[order_id], !.in = in]]
    /\ UNCHANGED <<orders, trackings, tick, last, twinUpdate, twinCreate>>
    /\ UNCHANGED statuses
    /\ response' = None
    /\ UNCHANGED assetTables

\* update_process_order: the existence query on process_tracking, which runs
\* only in the tracking branch.
ConcUpdateCheck(c) ==
    /\ calls[c].pc = "loaded"
    /\ calls' = [calls EXCEPT
           ![c].pc = "checked",
           ![c].existing =
               /\ EntersInProduction(calls[c].loaded.status, calls[c].in.status)
               /\ TrackingCount(calls[c].id) > 0]
    /\ UNCHANGED <<orders, trackings, tick, last, twinUpdate, twinCreate>>
    /\ UNCHANGED statuses
    /\ response' = None
    /\ UNCHANGED assetTables

\* update_process_order: db.commit() flushes the changed columns of obj and
\* the tracking row the session added.
ConcUpdateCommit(c) ==
    /\ calls[c].pc = "checked"
    /\ LET call == calls[c]
           stored == orders[call.id]
       IN  /\ orders' = [orders EXCEPT ![call.id] =
                   FlushRow(stored, call.loaded,
                            UpdateRow(call.loaded, call.in, Now))]
           /\ trackings' =
                  IF /\ EntersInProduction(call.loaded.status, call.in.status)
                     /\ InsertsAtCommit(call.existing, TrackingCount(call.id) > 0)
                  THEN trackings (+) OneTracking(call.id)
                  ELSE trackings
           /\ last' = [ op |-> "update", id |-> call.id,
                        old_status |-> call.loaded.status,
                        status |-> call.in.status,
                        pre_delivered_at |-> stored.delivered_at,
                        pre_count |-> TrackingCount(call.id),
                        pre_total |-> BagCardinality(trackings) ]
    /\ calls' = [calls EXCEPT ![c].pc = "done"]
    /\ UNCHANGED <<tick, twinUpdate, twinCreate>>
    /\ UNCHANGED statuses
    /\ response' = None
    /\ UNCHANGED assetTables

\* The table the requests meet: one order, as a create_process_order that
\* ran alone left it.
InitConc ==
    /\ NoAssets
    /\ \E in \in LifeInputs :
           /\ orders = <<CreateRow(in.quantity, in.unit_manufacturing_cost,
                                   in.total_quote_price, in.status, DateOf(0))>>
           /\ trackings = IF CreateAddsTracking(in.status)
                          THEN OneTracking(1)
                          ELSE EmptyBag
    /\ tick = 0
    /\ calls = [c \in 1..MaxCalls |-> IdleCall]
    /\ last = NoCall
    /\ twinUpdate = <<>>
    /\ twinCreate = None
    /\ statuses = <<>>

NextConc ==
    \/ \E c \in 1..MaxCalls, in \in LifeInputs : ConcCreateInsert(c, in)
    \/ \E c \in 1..MaxCalls : ConcCreateTrack(c)
    \/ \E c \in 1..MaxCalls, id \in 1..(MaxOrders + 1), in \in LifeInputs :
           ConcUpdateLoad(c, id, in)
    \/ \E c \in 1..MaxCalls : ConcUpdateCheck(c)
    \/ \E c \in 1..MaxCalls : ConcUpdateCommit(c)

SpecConc == InitConc /\ [][NextConc]_vars

\* ------------------------------------------------------------------------
\* SpecShareConc: replacements of shares served by several workers
\* ------------------------------------------------------------------------
\* Share payloads of the concurrent callers; none names the title the table
\* holds at the start.
ConcPayloads ==
    { <<Entry("A", 29)>>,
      <<Entry("A", 29), Entry("B", 70)>>,
      <<Entry("B", 70), Entry("A", -5)>> }

\* The rows of the table that a DELETE leaves when it removes the rows it saw.
RemainingAfter(rows, seen) ==
    SelectSeq(rows, LAMBDA r : \A i \in DOMAIN seen : seen[i] # r)

\* update_personnel_shares / update_equipment_shares up to the DELETE of the
\* owner's rows, which the session sends at once and which is not committed
\* yet: it takes the rows of the owner that are committed at that instant.
\* loaded holds them, in the payload.
ConcSharesDelete(c, k, owner_id, payload) ==
    /\ Free(c)
    /\ \E i \in DOMAIN owners[k] : owners[k][i].id = owner_id
    /\ calls' = [calls EXCEPT ![c] =
           [ pc |-> "deleted", kind |-> k, id |-> owner_id, in |-> payload,
             loaded |-> SelectSeq(shares[k], LAMBDA r : r.owner_id = owner_id),
             existing |-> FALSE ]]
    /\ UNCHANGED statuses
    /\ response' = None
    /\ UNCHANGED assetTables
    /\ UNCHANGED <<orders, trackings, tick, last, twinUpdate, twinCreate>>

\* The same call from there to its return: db.commit() makes the delete and
\* the inserts of the kept entries visible together.
ConcSharesCommit(c) ==
    /\ calls[c].pc = "deleted"
    /\ LET call == calls[c]
           kept == KeptEntries(call.in)
           added == [i \in DOMAIN kept |->
                        [ owner_id |-> call.id,
                          project_title |-> kept[i].title,
                          percent |-> kept[i].percent ]]
       IN  shares' = [shares EXCEPT ![call.kind] =
                          RemainingAfter(@, call.loaded) \o added]
    /\ calls' = [calls EXCEPT ![c].pc = "done"]
    /\ UNCHANGED statuses
    /\ response' = None
    /\ UNCHANGED <<owners, projects>>
    /\ UNCHANGED <<orders, trackings, tick, last, twinUpdate, twinCreate>>

\* The tables the requests meet: a person and a machine, the person perhaps
\* with a share already.
InitShareConc ==
    /\ owners = [k \in Kinds |-> <<[id |-> 1, base |-> Some(50)]>>]
    /\ shares \in { [k \in Kinds |-> <<>>],
                    [k \in Kinds |->
                        IF k = "personnel"
                        THEN <<[owner_id |-> 1, project_title |-> "C", percent |-> 10]>>
                        ELSE <<>>] }
    /\ projects = <<>>
    /\ response = None
    /\ statuses = <<>>
    /\ orders = <<>>
    /\ trackings = EmptyBag
    /\ tick = 0
    /\ calls = [c \in 1..MaxCalls |-> IdleCall]
    /\ last = NoCall
    /\ twinUpdate = <<>>
    /\ twinCreate = None

NextShareConc ==
    \/ \E c \in 1..MaxCalls, k \in Kinds, id \in 1..2, payload \in ConcPayloads :
           ConcSharesDelete(c, k, id, payload)
    \/ \E c \in 1..MaxCalls : ConcSharesCommit(c)

SpecShareConc == InitShareConc /\ [][NextShareConc]_vars

\* ------------------------------------------------------------------------
\* Properties of the order lifecycle (Spec)
\* ------------------------------------------------------------------------
\* The last call was an update_process_order that found its order.
Updated == last.op = "update"

\* The last call was a create_process_order that stored its order.
Created == last.op = "create"

\* C1, as claimed: once an order's delivered_at holds a date, no later call
\* changes it.
C1_DeliveredAtWrittenOnce ==
    [][\A o \in OrderIds :
          orders[o].delivered_at # None
              => orders'[o].delivered_at = orders[o].delivered_at]_vars

\* C1, amended: with the calls running one after another, a delivered_at that
\* holds a date is never cleared, and a call changes it only by moving the
\* order from a status other than Delivered into Delivered, which stamps the
\* date of that call.
C1_DeliveredAtChangesOnlyOnEntering ==
    [][\A o \in OrderIds :
          orders[o].delivered_at # None
              => \/ orders'[o].delivered_at = orders[o].delivered_at
                 \/ /\ orders[o].status # Delivered
                    /\ orders'[o].status = Delivered
                    /\ orders'[o].delivered_at = Strftime(DateOf(tick))]_vars

\* An order delivered before has been delivered again, at a later date.
C1_Restamped ==
    /\ Updated
    /\ last.pre_delivered_at # None
    /\ orders[last.id].delivered_at # None
    /\ orders[last.id].delivered_at # last.pre_delivered_at

\* C3: an update that moves an order from a status other than InProduction
\* into InProduction inserts exactly one tracking row for it when it had
\* none, and no row when it had one or more; no other order gains a row.
C3_TrackingCreatedIfAbsent ==
    (Updated /\ last.old_status # InProduction /\ last.status = InProduction)
        => /\ TrackingCount(last.id) =
                  IF last.pre_count = 0 THEN 1 ELSE last.pre_count
           /\ BagCardinality(trackings) - last.pre_total =
                  TrackingCount(last.id) - last.pre_count

\* An update into InProduction has given an order its first tracking row.
C3_FirstTrackingRow ==
    /\ Updated
    /\ last.old_status # InProduction
    /\ last.status = InProduction
    /\ last.pre_count = 0
    /\ TrackingCount(last.id) = 1

\* C4: an update of an order that was InProduction and stays InProduction
\* leaves process_tracking as it was.
C4_StayingInProductionAddsNothing ==
    (Updated /\ last.old_status = InProduction /\ last.status = InProduction)
        => /\ TrackingCount(last.id) = last.pre_count
           /\ BagCardinality(trackings) = last.pre_total

\* An order with its one tracking row has been saved as InProduction again.
C4_SavedAgain ==
    /\ Updated
    /\ last.old_status = InProduction
    /\ last.status = InProduction
    /\ last.pre_count = 1
    /\ TrackingCount(last.id) = 1

C6_DeliveredAtStamp ==
    Updated
        => orders[last.id].delivered_at =
               IF last.old_status # Delivered /\ last.status = Delivered
               THEN Strftime(Now)
               ELSE last.pre_delivered_at

\* An order that was never delivered has been delivered, after time passed.
C6_FirstDelivery ==
    /\ Updated
    /\ tick > 0
    /\ last.old_status # Delivered
    /\ last.status = Delivered
    /\ last.pre_delivered_at = None
    /\ orders[last.id].delivered_at = Strftime(Now)

\* ------------------------------------------------------------------------
\* Properties of interleaved requests (SpecConc)
\* ------------------------------------------------------------------------
\* The request has returned from an update that went from a status other
\* than InProduction into InProduction and whose existence query found no
\* tracking row of the order.
EnteredUnseen(c, order_id) ==
    /\ calls[c].pc = "done"
    /\ calls[c].id = order_id
    /\ calls[c].loaded # <<>>
    /\ EntersInProduction(calls[c].loaded.status, calls[c].in.status)
    /\ ~calls[c].existing

\* C2: two updates of one order into InProduction that both found no
\* tracking row have both inserted one: the order has two rows or more.
C2_BothInsert ==
    \A c1, c2 \in 1..MaxCalls, o \in OrderIds :
        (c1 # c2 /\ EnteredUnseen(c1, o) /\ EnteredUnseen(c2, o))
            => TrackingCount(o) >= 2

\* Two such updates have returned, and the order has two tracking rows.
C2_DuplicateTracking ==
    \E c1, c2 \in 1..MaxCalls, o \in OrderIds :
        /\ c1 # c2
        /\ EnteredUnseen(c1, o)
        /\ EnteredUnseen(c2, o)
        /\ TrackingCount(o) = 2

\* ------------------------------------------------------------------------
\* Properties of the derived fields (SpecCalc)
\* ------------------------------------------------------------------------
\* No create or update has raised on a division.
NoDivisionFault == last.op \notin {"create_fault", "update_fault"}

\* u is a / b with the fraction dropped (b # 0).
IsQuotientTowardZero(u, a, b) ==
    /\ Abs(u) * Abs(b) <= Abs(a)
    /\ Abs(a) < (Abs(u) + 1) * Abs(b)
    /\ u # 0 => ((u > 0) <=> ((a > 0) <=> (b > 0)))

\* C7, as claimed: unit_quote_price is floor(total_quote_price / quantity)
\* when quantity > 0 and 0 otherwise, for all integers, without fault.
C7_UnitPriceIsFloor ==
    /\ NoDivisionFault
    /\ \A o \in OrderIds :
           orders[o].unit_quote_price =
               IF orders[o].quantity > 0
               THEN orders[o].total_quote_price \div orders[o].quantity
               ELSE 0

\* C7, amended: unit_quote_price is total_quote_price / quantity truncated
\* toward zero when quantity is not 0 and 0 when it is 0, without fault.
C7_UnitPriceIsTruncatedQuotient ==
    /\ NoDivisionFault
    /\ \A o \in OrderIds :
           IF orders[o].quantity = 0
           THEN orders[o].unit_quote_price = 0
           ELSE IsQuotientTowardZero(orders[o].unit_quote_price,
                                     orders[o].total_quote_price,
                                     orders[o].quantity)

\* An update has stored a negative price over a quantity that does not
\* divide it, and the unit price is the quotient cut toward zero.
C7_NegativePriceCut ==
    /\ Updated
    /\ orders[last.id].quantity = 2
    /\ orders[last.id].total_quote_price = -3
    /\ orders[last.id].unit_quote_price = -1

\* C8, as claimed: margin_rate is null exactly when total_quote_price is not
\* greater than 0, and otherwise it is
\* (total_quote_price - manufacturing cost) / total_quote_price * 100.
C8_MarginNullIffPriceNotPositive ==
    /\ NoDivisionFault
    /\ \A o \in OrderIds :
           IF orders[o].total_quote_price > 0
           THEN /\ orders[o].margin_rate # None
                /\ orders[o].margin_rate[1] * orders[o].total_quote_price =
                       100 * orders[o].margin_rate[2]
                           * (orders[o].total_quote_price
                                  - orders[o].unit_manufacturing_cost)
           ELSE orders[o].margin_rate = None

\* C9, as claimed: the row an update leaves has the unit_quote_price and the
\* margin_rate of the row a create with the same quantity, cost and price
\* makes.
C9_UpdateDerivesAsCreate ==
    (Updated /\ twinCreate # None)
        => /\ orders[last.id].unit_quote_price = twinCreate.unit_quote_price
           /\ orders[last.id].margin_rate = twinCreate.margin_rate

\* C10: an update leaves the table as its twin does, whose body differs in
\* unit_quote_price, margin_rate and delivered_at only.
C10_EchoedFieldsIgnored == Updated => twinUpdate = orders

\* An update whose body echoed derived fields has delivered an order, and
\* the unit price and margin stored are the computed ones.
C10_EchoDropped ==
    /\ Updated
    /\ twinUpdate = orders
    /\ orders[last.id].status = Delivered
    /\ orders[last.id].delivered_at = Strftime(Now)
    /\ orders[last.id].unit_quote_price = 1
    /\ orders[last.id].margin_rate = <<200, 3>>

\* ------------------------------------------------------------------------
\* Properties of the missing order (Spec)
\* ------------------------------------------------------------------------
\* C11: an update_process_order whose order id is not in the table answers
\* not found and leaves the tables as they were: no order is added or
\* changed and no tracking row is inserted.
C11_NotFoundLeavesStore ==
    [][last'.op = "update_404"
          => /\ last'.id \notin OrderIds
             /\ orders' = orders
             /\ trackings' = trackings]_vars

\* An update has been answered not found, beside an order and a tracking row
\* that are stored.
C11_RefusedBesideRows ==
    /\ last.op = "update_404"
    /\ last.id \notin OrderIds
    /\ orders # <<>>
    /\ trackings # EmptyBag

\* ------------------------------------------------------------------------
\* Properties of two updates of one order (SpecConc)
\* ------------------------------------------------------------------------
\* The columns update_process_order assigns on every call.
AssignedFields ==
    { "quantity", "unit_manufacturing_cost", "total_quote_price",
      "unit_quote_price", "margin_rate", "status" }

\* The request is an update_process_order of this order that has returned.
UpdateReturned(c, order_id) ==
    /\ calls[c].pc = "done"
    /\ calls[c].id = order_id
    /\ calls[c].loaded # <<>>

\* C12, as claimed: when an update_process_order commits after another
\* update of the same order has committed, every column the handler assigns
\* (status and the derived columns among them) holds, in the stored row, the
\* value the committing call gave it: nothing of the earlier call survives.
C12_LastCommitWins ==
    [][\A c \in 1..MaxCalls :
          ( /\ calls[c].pc = "checked"
            /\ calls'[c].pc = "done"
            /\ \E d \in 1..MaxCalls \ {c} : UpdateReturned(d, calls[c].id) )
              => \A f \in AssignedFields :
                     orders'[calls[c].id][f] =
                         UpdateRow(calls[c].loaded, calls[c].in, Now)[f]]_vars

\* ------------------------------------------------------------------------
\* Properties of the sales summary (SpecSales)
\* ------------------------------------------------------------------------
\* The last call was a get_sales_summary; no call has come since.
Summarised == response # None /\ response.op = "sales_summary"

\* The sum of total_quote_price over a set of orders of the table.
RECURSIVE PriceSum(_)
PriceSum(ids) ==
    IF ids = {}
    THEN 0
    ELSE LET o == CHOOSE x \in ids : TRUE
         IN  orders[o].total_quote_price + PriceSum(ids \ {o})

\* The orders that are Delivered, and those among them whose delivered_at
\* parses as a date.
DeliveredIds == {o \in OrderIds : orders[o].status = Delivered}

DatedIds == {o \in DeliveredIds : ParseDate(orders[o].delivered_at) # None}

\* C13: total_sales_all is the sum of total_quote_price over exactly the
\* orders whose status is Delivered when the summary is made, whether their
\* delivered_at parses or not; an order in another status adds nothing, even
\* one that keeps a delivered_at from an earlier delivery.
C13_TotalAllSumsDelivered ==
    Summarised => response.body.total_sales_all = PriceSum(DeliveredIds)

\* A summary has been made of a table that holds a Delivered order whose
\* delivered_at does not parse and an order of another status that still
\* carries a date: the first is in the total and the second is not.
C13_UndatedCountedDatedIgnored ==
    /\ Summarised
    /\ DeliveredIds \ DatedIds # {}
    /\ \E o \in OrderIds \ DeliveredIds :
           ParseDate(orders[o].delivered_at) # None
    /\ response.body.total_sales_all = PriceSum(DeliveredIds)
    /\ response.body.total_sales_all > 0

\* The parsed delivered_at of an order of DatedIds.
DeliveredOn(o) == ParseDate(orders[o].delivered_at)

\* The Delivered orders whose date falls in the year of now, and those among
\* them in the quarter and in the month of now.
YearIds == {o \in DatedIds : DeliveredOn(o).year = Now.year}

QuarterIds ==
    {o \in YearIds :
        ((DeliveredOn(o).month - 1) \div 3) + 1 = ((Now.month - 1) \div 3) + 1}

MonthIds == {o \in QuarterIds : DeliveredOn(o).month = Now.month}

\* C14: in a summary made at the instant now, a Delivered order adds its
\* total_quote_price to total_sales_year iff its delivered_at parses as a
\* date of now's year, to total_sales_quarter iff moreover
\* ((month - 1) div 3) + 1 is that of now, and to total_sales_month iff
\* moreover its month is now's; an order whose delivered_at is absent or
\* does not parse adds to none of the three, and an order delivered in
\* another quarter of the year adds to the year and not to the quarter.
C14_WindowedTotals ==
    Summarised
        => /\ response.body.total_sales_year = PriceSum(YearIds)
           /\ response.body.total_sales_quarter = PriceSum(QuarterIds)
           /\ response.body.total_sales_month = PriceSum(MonthIds)
           /\ response.body.year = Now.year
           /\ response.body.quarter = ((Now.month - 1) \div 3) + 1
           /\ response.body.month = Now.month

\* A summary has been made of a table with two Delivered orders, one
\* delivered in another quarter of this year and one whose delivered_at
\* does not parse: the year's total holds the first alone and the
\* quarter's total holds neither.
C14_OtherQuarterAndUndated ==
    /\ Summarised
    /\ YearIds \ QuarterIds # {}
    /\ DeliveredIds \ DatedIds # {}
    /\ response.body.total_sales_year = PriceSum(YearIds \ QuarterIds)
    /\ response.body.total_sales_quarter = 0
    /\ response.body.total_sales_all > response.body.total_sales_year

\* ------------------------------------------------------------------------
\* Properties of the list of active titles (SpecTitles)
\* ------------------------------------------------------------------------
\* The last call was a get_assets all of whose reads succeeded; no call has
\* come since.
Reported ==
    response # None /\ response.op = "assets" /\ response.fail = "none"

\* The rows of projects whose status is InProgress or Applied.
ActiveRows == {i \in DOMAIN projects : projects[i].status \in {InProgress, Applied}}

\* The list holds exactly the titles of the given rows, each once, a title
\* coming before another when its first row comes before the other's.
ListsTitlesOf(list, rows) ==
    LET first(title) ==
            CHOOSE i \in rows :
                /\ projects[i].title = title
                /\ \A j \in rows : projects[j].title = title => i <= j
    IN  /\ {list[n] : n \in DOMAIN list} = {projects[i].title : i \in rows}
        /\ \A m, n \in DOMAIN list : m < n => list[m] # list[n]
        /\ \A m, n \in DOMAIN list : m < n => first(list[m]) < first(list[n])

\* C15, as claimed: the list of projects in the report holds exactly the
\* distinct titles of the projects whose status is InProgress or Applied,
\* each once, in the order of their first occurrence in the table.
C15_ActiveTitlesListed ==
    Reported => ListsTitlesOf(response.body.projects, ActiveRows)

\* C15, amended: the list holds exactly the distinct titles that are not
\* empty of the projects whose status is InProgress or Applied, each once,
\* in the order of their first occurrence in the table.
C15_NonEmptyActiveTitlesListed ==
    Reported
        => ListsTitlesOf(response.body.projects,
                         {i \in ActiveRows : projects[i].title # ""})

\* A report has been made of a table where an active title comes twice,
\* before and after another active title: the list holds the two titles,
\* the repeated one first.
C15_RepeatedTitleListedOnce ==
    /\ Reported
    /\ Len(response.body.projects) = 2
    /\ \E i, j, l \in ActiveRows :
           /\ i < j /\ j < l
           /\ projects[i].title = projects[l].title
           /\ projects[i].title # projects[j].title
           /\ response.body.projects = <<projects[i].title, projects[j].title>>

\* ------------------------------------------------------------------------
\* Properties of the allocation report (SpecAssets)
\* ------------------------------------------------------------------------
\* The titles, not empty, of the projects that are active.
ActiveTitleSet == {projects[i].title : i \in ActiveRows} \ {""}

\* The rows and the two totals of one kind of owner in the body returned.
RowsOf(k) ==
    IF k = "personnel"
    THEN response.body.personnel_rows
    ELSE response.body.equipment_rows

BaseTotalOf(k) ==
    IF k = "personnel"
    THEN response.body.personnel_salary_total
    ELSE response.body.equipment_acquisition_total

GrandTotalOf(k) ==
    IF k = "personnel"
    THEN response.body.personnel_grand_total
    ELSE response.body.equipment_grand_total

\* The stored share rows of an owner whose title is active.
ActiveSharesOf(k, owner_id) ==
    {i \in DOMAIN shares[k] : /\ shares[k][i].owner_id = owner_id
                              /\ shares[k][i].project_title \in ActiveTitleSet}

RECURSIVE PercentSum(_, _)
PercentSum(k, rows) ==
    IF rows = {}
    THEN 0
    ELSE LET i == CHOOSE x \in rows : TRUE
         IN  shares[k][i].percent + PercentSum(k, rows \ {i})

\* The sum of the total_amount of the rows of a report.
RECURSIVE AmountSum(_)
AmountSum(rows) ==
    IF rows = <<>> THEN 0 ELSE Head(rows).total_amount + AmountSum(Tail(rows))

\* The sum of the base values of the owners stored, null as 0.
RECURSIVE BaseSum(_)
BaseSum(rows) ==
    IF rows = <<>> THEN 0 ELSE BaseOrZero(Head(rows)) + BaseSum(Tail(rows))

\* C16: in the report every owner, of base value B (null as 0) and whose
\* shares over the active titles sum to P, has total_percent P, not capped
\* at 100, and total_amount floor(B * P / 100), also when P > 100; no owner
\* is left out for being over-allocated.
C16_AmountIsFloorOfShare ==
    Reported
        => \A k \in Kinds :
               /\ Len(RowsOf(k)) = Len(owners[k])
               /\ \A n \in DOMAIN owners[k] :
                      LET P == PercentSum(k, ActiveSharesOf(k, owners[k][n].id))
                          B == BaseOrZero(owners[k][n])
                      IN  /\ RowsOf(k)[n].id = owners[k][n].id
                          /\ RowsOf(k)[n].total_percent = FloatOf(P)
                          /\ RowsOf(k)[n].total_amount = (B * P) \div 100

\* What a report says of the shares: each owner's map has the active titles
\* and no other, with the owner's percent or 0, and total_percent is the sum
\* of the owner's shares whose title is active.
InactiveSharesLeftOut ==
    \A k \in Kinds :
        /\ Len(RowsOf(k)) = Len(owners[k])
        /\ \A n \in DOMAIN owners[k] :
               LET row == RowsOf(k)[n]
                   mine == ActiveSharesOf(k, owners[k][n].id)
               IN  /\ DOMAIN row.shares = ActiveTitleSet
                   /\ \A i \in mine :
                          row.shares[shares[k][i].project_title] = shares[k][i].percent
                   /\ \A title \in ActiveTitleSet :
                          (\A i \in mine : shares[k][i].project_title # title)
                              => row.shares[title] = 0
                   /\ row.total_percent = FloatOf(PercentSum(k, mine))

\* C17: making the report deletes and changes no share row; a share whose
\* title is not active adds 0 to its owner's total_percent and is absent
\* from the owner's map, stays stored, and adds its full percent in every
\* report made once a project of that title is active.
C17_ReportKeepsInactiveShares ==
    /\ [](Reported => InactiveSharesLeftOut)
    /\ [][(response' # None /\ response'.op = "assets")
             => /\ shares' = shares
                /\ owners' = owners
                /\ projects' = projects]_vars

\* A report has been made while an owner holds a share of an active title
\* and a share of a title that is not active: the first alone is in the
\* owner's map and total, and both are still stored.
C17_InactiveShareStored ==
    /\ Reported
    /\ \E k \in Kinds : \E n \in DOMAIN owners[k], i, j \in DOMAIN shares[k] :
           /\ shares[k][i].owner_id = owners[k][n].id
           /\ shares[k][j].owner_id = owners[k][n].id
           /\ shares[k][i].project_title \in ActiveTitleSet
           /\ shares[k][j].project_title \notin ActiveTitleSet
           /\ shares[k][j].project_title \notin DOMAIN RowsOf(k)[n].shares
           /\ RowsOf(k)[n].total_percent = FloatOf(shares[k][i].percent)

\* C18: in every report the grand total of each kind is the sum of the
\* total_amount of its rows, and the total of the base values is the sum of
\* the base values of its rows, null as 0.
C18_TotalsSumTheRows ==
    Reported
        => \A k \in Kinds :
               /\ GrandTotalOf(k) = AmountSum(RowsOf(k))
               /\ BaseTotalOf(k) = BaseSum(owners[k])

\* C19: when a read of the tables fails while the report is made, of the
\* owners, of the shares or of the projects, get_assets returns the report
\* of zeros: no project, no row, the four totals 0.
C19_FailedReadGivesZeroReport ==
    (response # None /\ response.op = "assets" /\ response.fail # "none")
        => response.body = EmptyResult

\* ------------------------------------------------------------------------
\* Properties of the replacement of the shares (SpecShares)
\* ------------------------------------------------------------------------
\* The share rows of one table as (owner, title, percent) triples, each with
\* the number of rows that hold it.
ShareTriples(k) ==
    LET rows == shares[k]
    IN  [t \in {rows[i] : i \in DOMAIN rows} |->
            Cardinality({i \in DOMAIN rows : rows[i] = t})]

\* The call just made repeats the call made right before it.
AppliedTwice ==
    /\ response # None
    /\ response.op = "update_shares"
    /\ response.again

\* C20: for an owner that exists and any payload X, replacing the owner's
\* shares by X a second time in a row leaves the share rows, as (owner, title,
\* percent) triples and how many rows hold each, as the first call left them.
C20_ReplaceTwiceIsReplaceOnce ==
    [][AppliedTwice' => \A k \in Kinds : ShareTriples(k)' = ShareTriples(k)]_vars

\* A payload with an entry that becomes a row and an entry that is dropped
\* has been applied twice in a row to an owner, beside the rows of another
\* owner of the same table.
C20_RepeatedBesideOtherOwner ==
    /\ AppliedTwice
    /\ KeptEntries(response.payload) # <<>>
    /\ KeptEntries(response.payload) # response.payload
    /\ \E i, j \in DOMAIN shares[response.kind] :
           /\ shares[response.kind][i].owner_id = response.id
           /\ shares[response.kind][j].owner_id # response.id

\* The (title, percent) pairs of the rows of a share table that belong to
\* an owner.
SharesOfOwner(rows, owner_id) ==
    { <<rows[i].project_title, rows[i].percent>> :
          i \in {j \in DOMAIN rows : rows[j].owner_id = owner_id} }

\* The rows of a share table that belong to an owner, and to the others.
RowsOfOwner(rows, owner_id) ==
    SelectSeq(rows, LAMBDA r : r.owner_id = owner_id)

SharesOfOthers(rows, owner_id) ==
    SelectSeq(rows, LAMBDA r : r.owner_id # owner_id)

\* The (title, percent) pairs of the payload whose percent is above 0.
PositiveEntries(payload) ==
    { <<payload[i].title, payload[i].percent>> :
          i \in {j \in DOMAIN payload : payload[j].percent > 0} }

\* C21: after a replacement of the shares of owner o by payload X that
\* succeeds, the share rows of o are the entries of X with percent > 0, one
\* row each, whatever rows o had before; the rows of every other owner of the
\* table and the table of the other kind are as they were.
C21_ReplaceIsFullAndFramed ==
    [][(response' # None /\ response'.op = "update_shares")
          => /\ SharesOfOwner(shares'[response'.kind], response'.id)
                    = PositiveEntries(response'.payload)
             /\ Len(RowsOfOwner(shares'[response'.kind], response'.id))
                    = Cardinality(PositiveEntries(response'.payload))
             /\ SharesOfOthers(shares'[response'.kind], response'.id)
                    = SharesOfOthers(shares[response'.kind], response'.id)
             /\ \A k \in Kinds \ {response'.kind} : shares'[k] = shares[k]]_vars

\* The shares of an owner have been replaced by a payload with an entry that
\* is kept and one that is dropped, beside the rows of another owner of the
\* table.
C21_ReplacedBesideOthers ==
    /\ response # None
    /\ response.op = "update_shares"
    /\ ~response.again
    /\ PositiveEntries(response.payload) # {}
    /\ Cardinality(PositiveEntries(response.payload)) < Len(response.payload)
    /\ SharesOfOthers(shares[response.kind], response.id) # <<>>

\* C22: whatever owners are added and deleted and whatever shares are
\* replaced, no row of personnel_project_share or equipment_project_share
\* has a percent of 0 or less.
C22_NoShareRowAtOrBelowZero ==
    \A k \in Kinds : \A i \in DOMAIN shares[k] : ~(shares[k][i].percent <= 0)

\* A payload with an entry of percent 0 or less has just been applied, and
\* share rows are stored in both tables.
C22_NonPositiveEntrySent ==
    /\ response # None
    /\ response.op = "update_shares"
    /\ \E i \in DOMAIN response.payload : response.payload[i].percent <= 0
    /\ \A k \in Kinds : shares[k] # <<>>

\* The rows of process_order_status of an order.
StatusRowsOf(order_id) ==
    {i \in DOMAIN statuses : statuses[i].order_id = order_id}

\* The five progress fields of the row are those of the payload.
HoldsProgress(row, payload) ==
    /\ row.total_process_time_hours = payload.total_process_time_hours
    /\ row.current_stage = payload.current_stage
    /\ row.progress_percent = payload.progress_percent
    /\ row.current_detail = payload.current_detail
    /\ row.priority = payload.priority

\* C23: after any sequence of calls of create_or_update_order_status the
\* table holds at most one row per order id: the first call for an order
\* inserts a row, and every later call for it writes the payload's progress
\* fields over that row and inserts none.
C23_OneStatusRowPerOrder ==
    /\ [](\A id \in StatusOrders : Cardinality(StatusRowsOf(id)) <= 1)
    /\ [][(response' # None /\ response'.op = "order_status")
             => /\ response'.inserted = (StatusRowsOf(response'.id) = {})
                /\ Len(statuses') = Len(statuses) + (IF response'.inserted THEN 1 ELSE 0)
                /\ \E i \in DOMAIN statuses' :
                       /\ statuses'[i].order_id = response'.id
                       /\ HoldsProgress(statuses'[i], response'.payload)
                /\ \A i \in DOMAIN statuses :
                       /\ statuses'[i].order_id = statuses[i].order_id
                       /\ statuses[i].order_id # response'.id
                              => statuses'[i] = statuses[i]]_vars

\* A later call for an order has written another stage and percent over the
\* order's row, beside the row of another order.
C23_RowOverwritten ==
    /\ response # None
    /\ response.op = "order_status"
    /\ ~response.inserted
    /\ Len(statuses) = 2
    /\ \E i \in DOMAIN statuses :
           /\ statuses[i].order_id = response.id
           /\ statuses[i].progress_percent = 90
           /\ response.payload.order_id # response.id

\* C24: every operation commits its writes as one unit: in no state that
\* another request can observe, or that a failure can leave behind, is a part
\* only of the writes of one call stored; a create_process_order with status
\* InProduction never shows the new order without its tracking row.
C24_WritesCommitTogether ==
    \A c \in 1..MaxCalls :
        (calls[c].pc = "created" /\ CreateAddsTracking(calls[c].in.status))
            => calls[c].id \notin OrderIds

\* The text has the form YYYY-MM-DD: ten characters, digits but for the
\* hyphens at the fifth and the eighth.
IsIsoDate(s) ==
    /\ s # None
    /\ Len(s) = 10
    /\ \A i \in 1..10 : IF i \in {5, 8} THEN s[i] = "-" ELSE IsDigit(s[i])

\* C25: with create_process_order and update_process_order called one after
\* another, every order whose status is Delivered has a delivered_at that is
\* not null and has the form YYYY-MM-DD, so that every Delivered order, which
\* total_all counts, has a date that the windowed totals can read.
C25_DeliveredOrdersAreDated ==
    \A o \in OrderIds :
        orders[o].status = Delivered
            => /\ IsIsoDate(orders[o].delivered_at)
               /\ ParseDate(orders[o].delivered_at) # None

\* An order that was already Delivered has been saved as Delivered again,
\* on a later day than its date, and still holds that date.
C25_DeliveredSavedAgain ==
    /\ last.op = "update"
    /\ last.old_status = Delivered
    /\ last.status = Delivered
    /\ orders[last.id].status = Delivered
    /\ IsIsoDate(orders[last.id].delivered_at)
    /\ orders[last.id].delivered_at # Strftime(Now)

\* C26: with create_process_order and update_process_order called one after
\* another and no tracking row created, updated or deleted by hand, every
\* order has at most one tracking row, every order whose status is
\* InProduction has exactly one, and no call takes a tracking row away, so a
\* row outlives the order's leaving InProduction.
C26_OneTrackingRowKept ==
    /\ [](\A o \in OrderIds :
             /\ TrackingCount(o) <= 1
             /\ orders[o].status = InProduction => TrackingCount(o) = 1)
    /\ [][\A o \in OrderIds : CopiesIn(o, trackings') >= TrackingCount(o)]_vars

\* An order that had left InProduction with its tracking row has been moved
\* into InProduction again and has that one row.
C26_BackInProductionOneRow ==
    /\ last.op = "update"
    /\ last.old_status # InProduction
    /\ last.status = InProduction
    /\ last.pre_count = 1
    /\ TrackingCount(last.id) = 1

\* No delivered order has a total_quote_price below 0.
DeliveredPricesNotNegative ==
    \A o \in OrderIds :
        orders[o].status = Delivered => orders[o].total_quote_price >= 0

\* C27: when every Delivered order has a total_quote_price of 0 or more, the
\* summary has total_sales_month <= total_sales_quarter <= total_sales_year
\* <= total_sales_all, whatever the store holds and whatever the instant.
C27_TotalsNested ==
    (Summarised /\ DeliveredPricesNotNegative)
        => /\ response.body.total_sales_month <= response.body.total_sales_quarter
           /\ response.body.total_sales_quarter <= response.body.total_sales_year
           /\ response.body.total_sales_year <= response.body.total_sales_all

\* A summary over delivered orders of prices that are not negative in which
\* the quarter holds more than the month and the whole more than the year.
C27_StrictlyNested ==
    /\ Summarised
    /\ DeliveredPricesNotNegative
    /\ response.body.total_sales_month < response.body.total_sales_quarter
    /\ response.body.total_sales_year < response.body.total_sales_all

\* Two requests that replaced the shares of the same owner have both returned.
BothReplaced(c, d) ==
    /\ c # d
    /\ calls[c].pc = "done"
    /\ calls[d].pc = "done"
    /\ calls[c].kind = calls[d].kind
    /\ calls[c].id = calls[d].id

\* C28: once two concurrent replacements of the shares of one owner, with
\* payloads X and Y, have both completed, the owner's rows are the entries of
\* X with percent > 0 or those of Y, one row each and never a mixture or the
\* union of both, so the owner has at most one row per project title.
C28_OnePayloadWins ==
    \A c, d \in 1..MaxCalls :
        BothReplaced(c, d)
            => LET rows == RowsOfOwner(shares[calls[c].kind], calls[c].id)
               IN  /\ \/ SharesOfOwner(rows, calls[c].id) = PositiveEntries(calls[c].in)
                      \/ SharesOfOwner(rows, calls[c].id) = PositiveEntries(calls[d].in)
                   /\ \A i, j \in DOMAIN rows :
                          rows[i].project_title = rows[j].project_title => i = j

====
